---- MODULE Spec2Model ----
(***************************************************************************)
(* Model of the hasher-matcher-actioner action evaluator                    *)
(* (hmalib/lambdas/actions/action_evaluator.py) and of the webhook action   *)
(* performers (hmalib/common/actioner_models.py).                           *)
(*                                                                          *)
(* Four specifications share the module:                                    *)
(*   SpecApplies  action_rule_applies_to_classifications on every rule and  *)
(*                every classification set over Labels;                     *)
(*   SpecEvaluate repeated calls of get_actions_to_take on one MatchMessage *)
(*                and one rule list;                                        *)
(*   Spec         lambda_handler working through a batch of SQS records;    *)
(*   SpecWebhook  perform_action on the four webhook performers.            *)
(***************************************************************************)
EXTENDS Integers, Sequences, FiniteSets, TLC

VARIABLES
    action_rule,                  \* argument of action_rule_applies_to_classifications
    classifications,              \* argument of action_rule_applies_to_classifications
    applies_result,               \* its return value, "unset" before the call
    match_message,                \* the MatchMessage under evaluation
    action_rules,                 \* the rule list under evaluation
    action_label_to_action_rules, \* the dict returned by get_actions_to_take
    previous_result,              \* the dict returned by the call before
    calls,                        \* number of get_actions_to_take calls made
    event,                        \* event["Records"]: the inbound batch
    rule_config,                  \* what ActionRule.get_all() reads
    idx,                          \* position of the for loop of lambda_handler
    sent,                         \* every sqs send_message call, in order
    status,                       \* "running", "returned" or "raised"
    outcome,                      \* per record: "pending", "processed", "failed"
    performer,                    \* the webhook ActionPerformer
    http_calls,                   \* every outbound HTTP call, in order
    responses,                    \* what each HTTP call came back with
    perform_results               \* how each perform_action call ended

applyVars == <<action_rule, classifications, applies_result>>
evalVars == <<match_message, action_rules, action_label_to_action_rules,
              previous_result, calls>>
handlerVars == <<event, rule_config, idx, sent, status, outcome>>
webhookVars == <<performer, http_calls, responses, perform_results>>
vars == <<action_rule, classifications, applies_result, match_message,
          action_rules, action_label_to_action_rules, previous_result, calls,
          event, rule_config, idx, sent, status, outcome, performer,
          http_calls, responses, perform_results>>

----------------------------------------------------------------------------
(* Bounds *)

MaxSignals == 2
MaxRules == 2
MaxRecords == 3
MaxCalls == 2

----------------------------------------------------------------------------
(* Data model *)

Labels == {"C1", "C2", "C3"}
SignalLabels == {"C1", "C3"}
ActionLabels == {"A", "B"}
Urls == {"https://example.test/hook", "https://webhook.site/ff7ebc37"}

SeqsUpTo(S, n) == UNION {[1..k -> S] : k \in 0..n}

Range(s) == {s[i] : i \in DOMAIN s}

ActionRule(name, action_label, must_have_labels, must_not_have_labels) ==
    [name |-> name, action_label |-> action_label,
     must_have_labels |-> must_have_labels,
     must_not_have_labels |-> must_not_have_labels]

\* every rule over Labels
AllRules ==
    {ActionRule("rule", a, h, n) :
        a \in ActionLabels, h \in SUBSET Labels, n \in SUBSET Labels}

\* the rules the evaluation and the handler are run with: must-have and
\* must-not-have sets that are empty, satisfiable or contradictory
RuleUniverse ==
    {ActionRule("rule", a, h, n) :
        a \in ActionLabels, h \in {{}, {"C1"}}, n \in {{}, {"C3"}, {"C1"}}}

BankedSignal(cls) == [classifications |-> cls]

MatchMessage(banked_signals) == [matching_banked_signals |-> banked_signals]

BankedSignals == {BankedSignal(c) : c \in SUBSET SignalLabels}

MatchMessages == {MatchMessage(s) : s \in SeqsUpTo(BankedSignals, MaxSignals)}

----------------------------------------------------------------------------
(* action_evaluator.py: rule matching *)

action_rule_applies_to_classifications_any(rule, cls) ==
    /\ (rule.must_have_labels = {} \/ rule.must_have_labels \cap cls # {})
    /\ rule.must_not_have_labels \cap cls = {}

action_rule_applies_to_classifications_no_must_not(rule, cls) ==
    rule.must_have_labels \subseteq cls

action_rule_applies_to_classifications(rule, cls) ==
    /\ rule.must_have_labels \subseteq cls
    /\ rule.must_not_have_labels \cap cls = {}

\* a dict is the sequence of its items in insertion order
StaleDict == action_label_to_action_rules

NewDict == << >>

DictKeys(d) == {d[i].key : i \in DOMAIN d}

DictKeyList(d) == [i \in DOMAIN d |-> d[i].key]

DictGet(d, k) == d[CHOOSE i \in DOMAIN d : d[i].key = k].value

\* lines 128-135 without the append branch: the list is overwritten
AddRuleOverwrite(d, rule) ==
    IF rule.action_label \in DictKeys(d)
    THEN [i \in DOMAIN d |->
            IF d[i].key = rule.action_label
            THEN [key |-> d[i].key, value |-> <<rule>>]
            ELSE d[i]]
    ELSE Append(d, [key |-> rule.action_label, value |-> <<rule>>])

AddRule(d, rule) ==
    IF rule.action_label \in DictKeys(d)
    THEN [i \in DOMAIN d |->
            IF d[i].key = rule.action_label
            THEN [key |-> d[i].key, value |-> Append(d[i].value, rule)]
            ELSE d[i]]
    ELSE Append(d, [key |-> rule.action_label, value |-> <<rule>>])

RECURSIVE ForActionRule(_, _, _, _)
ForActionRule(d, banked_signal, rules, j) ==
    IF j > Len(rules)
    THEN d
    ELSE ForActionRule(
            IF action_rule_applies_to_classifications(
                   rules[j], banked_signal.classifications)
            THEN AddRule(d, rules[j])
            ELSE d,
            banked_signal, rules, j + 1)

RECURSIVE ForBankedSignal(_, _, _, _)
ForBankedSignal(d, banked_signals, rules, i) ==
    IF i > Len(banked_signals)
    THEN d
    ELSE ForBankedSignal(ForActionRule(d, banked_signals[i], rules, 1),
                         banked_signals, rules, i + 1)

get_actions ==
    << [action_label |-> "EnqueueForReview", priority |-> 1,
        superseded_by |-> <<"A_MORE_IMPORTANT_ACTION">>] >>

remove_superseded_actions(d) == d

get_actions_to_take(mm, rules) ==
    remove_superseded_actions(
        ForBankedSignal(NewDict, mm.matching_banked_signals, rules, 1))

threat_exchange_reacting_is_enabled(mm) == TRUE

get_threat_exchange_reaction_labels_if_any(mm, action_labels) ==
    IF Len(action_labels) = 0 THEN << >> ELSE <<"SAW_THIS_TOO">>

get_threat_exchange_reaction_labels(mm, action_labels) == <<"SAW_THIS_TOO">>

----------------------------------------------------------------------------
(* message_models.py: the wire form of the messages *)

SetToList(S) ==
    CHOOSE s \in [1..Cardinality(S) -> S] : Range(s) = S

json_dumps(doc) == [valid |-> TRUE, doc |-> doc]

Malformed == [valid |-> FALSE, doc |-> << >>]

MatchMessage_to_aws(mm) ==
    [matching_banked_signals |->
        [i \in DOMAIN mm.matching_banked_signals |->
            [classifications |->
                SetToList(mm.matching_banked_signals[i].classifications)]]]

MatchMessage_from_aws_json(body) ==
    MatchMessage(
        [i \in DOMAIN body.doc.matching_banked_signals |->
            BankedSignal(
                Range(body.doc.matching_banked_signals[i].classifications))])

ActionRule_to_aws(rule) ==
    [name |-> rule.name, action_label |-> rule.action_label,
     must_have_labels |-> SetToList(rule.must_have_labels),
     must_not_have_labels |-> SetToList(rule.must_not_have_labels)]

ActionMessage_to_aws_json(mm, action_label, rules) ==
    json_dumps([match_message |-> MatchMessage_to_aws(mm),
                action_label |-> action_label,
                action_rules |-> [i \in DOMAIN rules |->
                                     ActionRule_to_aws(rules[i])]])

ReactionMessage_to_aws_json(mm, reaction_label) ==
    json_dumps([match_message |-> MatchMessage_to_aws(mm),
                reaction_label |-> reaction_label])

----------------------------------------------------------------------------
(* action_evaluator.py: lambda_handler *)

get_action_rules == rule_config

SendMessage(queue, body) == [queue |-> queue, record |-> idx, body |-> body]

\* lines 84-95 with the last action label left out
ActionSendsButLast(mm, d) ==
    [k \in 1..(Len(d) - 1) |->
        SendMessage("actions",
                    ActionMessage_to_aws_json(mm, d[k].key, DictGet(d, d[k].key)))]

ActionSends(mm, d) ==
    [k \in DOMAIN DictKeyList(d) |->
        SendMessage("actions",
                    ActionMessage_to_aws_json(mm, DictKeyList(d)[k],
                                              DictGet(d, DictKeyList(d)[k])))]

ReactionSends(mm, action_labels) ==
    IF threat_exchange_reacting_is_enabled(mm)
    THEN LET reaction_labels ==
                 get_threat_exchange_reaction_labels(mm, action_labels)
         IN [k \in DOMAIN reaction_labels |->
                SendMessage("reactions",
                            ReactionMessage_to_aws_json(mm, reaction_labels[k]))]
    ELSE << >>

----------------------------------------------------------------------------
(* actioner_models.py: the webhook performers *)

WebhookVariants == {"WebhookPostActionPerformer", "WebhookGetActionPerformer",
                    "WebhookPutActionPerformer", "WebhookDeleteActionPerformer"}

\* the body of a request: <<data>> when one is sent, << >> when none is
HttpCall(method, url, body) == [method |-> method, url |-> url, body |-> body]

WebhookPostActionPerformer_call(self, data) ==
    HttpCall("POST", self.url, <<data>>)

WebhookGetActionPerformer_call_with_body(self, data) ==
    HttpCall("GET", self.url, <<data>>)

WebhookGetActionPerformer_call(self, data) == HttpCall("GET", self.url, << >>)

WebhookPutActionPerformer_call(self, data) ==
    HttpCall("PUT", self.url, <<data>>)

WebhookDeleteActionPerformer_call(self, data) ==
    HttpCall("DELETE", self.url, << >>)

\* self.call: dispatch on the subtype
call(self, data) ==
    CASE self.variant = "WebhookPostActionPerformer" ->
            WebhookPostActionPerformer_call(self, data)
      [] self.variant = "WebhookGetActionPerformer" ->
            WebhookGetActionPerformer_call(self, data)
      [] self.variant = "WebhookPutActionPerformer" ->
            WebhookPutActionPerformer_call(self, data)
      [] self.variant = "WebhookDeleteActionPerformer" ->
            WebhookDeleteActionPerformer_call(self, data)

\* what requests.post/get/put/delete can come back with: a response with a
\* success status, a response with an error status, or a raised exception
HttpOutcomes == {"success", "error_status", "network_error"}

\* perform_action ends by raising only when the requests call raised; the
\* Response that call() returns is dropped
PerformResult(http_outcome) ==
    IF http_outcome = "network_error" THEN "raised" ELSE "returned"

perform_action ==
    /\ Len(perform_results) < MaxCalls
    /\ \E http_outcome \in HttpOutcomes :
          /\ http_calls' = Append(http_calls,
                call(performer, json_dumps(MatchMessage_to_aws(match_message))))
          /\ responses' = Append(responses, http_outcome)
          /\ perform_results' =
                Append(perform_results, PerformResult(http_outcome))
    /\ UNCHANGED <<performer, match_message, action_rules,
                   action_label_to_action_rules, previous_result, calls>>
    /\ UNCHANGED applyVars
    /\ UNCHANGED handlerVars

----------------------------------------------------------------------------
(* Actions of the evaluator *)

ApplyRule ==
    /\ applies_result = "unset"
    /\ applies_result' =
          IF action_rule_applies_to_classifications(action_rule, classifications)
          THEN "true" ELSE "false"
    /\ UNCHANGED <<action_rule, classifications>>
    /\ UNCHANGED evalVars
    /\ UNCHANGED handlerVars
    /\ UNCHANGED webhookVars

CallGetActionsToTake ==
    /\ calls < MaxCalls
    /\ action_label_to_action_rules' =
          get_actions_to_take(match_message, action_rules)
    /\ previous_result' = action_label_to_action_rules
    /\ calls' = calls + 1
    /\ UNCHANGED <<match_message, action_rules>>
    /\ UNCHANGED applyVars
    /\ UNCHANGED handlerVars
    /\ UNCHANGED webhookVars

\* one iteration of the for loop over event["Records"]
lambda_handler_record ==
    /\ status = "running"
    /\ idx <= Len(event)
    /\ IF ~event[idx].valid
       THEN \* json.loads / MatchMessage.from_aws_json raises
            /\ status' = "raised"
            /\ outcome' = [outcome EXCEPT ![idx] = "failed"]
            /\ UNCHANGED <<idx, sent, match_message, action_rules,
                           action_label_to_action_rules>>
       ELSE LET mm == MatchMessage_from_aws_json(event[idx])
                rules == get_action_rules
                d == get_actions_to_take(mm, rules)
                sends == ActionSends(mm, d) \o ReactionSends(mm, DictKeyList(d))
            IN /\ match_message' = mm
               /\ action_rules' = rules
               /\ action_label_to_action_rules' = d
               /\ \E n \in 0..Len(sends) :
                     \* send_message number n + 1 raises, if there is one
                     /\ sent' = sent \o SubSeq(sends, 1, n)
                     /\ IF n = Len(sends)
                        THEN /\ outcome' = [outcome EXCEPT ![idx] = "processed"]
                             /\ idx' = idx + 1
                             /\ status' = status
                        ELSE /\ outcome' = [outcome EXCEPT ![idx] = "failed"]
                             /\ idx' = idx
                             /\ status' = "raised"
    /\ UNCHANGED <<event, rule_config, previous_result, calls>>
    /\ UNCHANGED applyVars
    /\ UNCHANGED webhookVars

lambda_handler_return ==
    /\ status = "running"
    /\ idx > Len(event)
    /\ status' = "returned"
    /\ UNCHANGED <<event, rule_config, idx, sent, outcome>>
    /\ UNCHANGED evalVars
    /\ UNCHANGED applyVars
    /\ UNCHANGED webhookVars

----------------------------------------------------------------------------
(* Specifications *)

NoRule == ActionRule("rule", "A", {}, {})

ApplyIdle ==
    /\ action_rule = NoRule
    /\ classifications = {}
    /\ applies_result = "unset"

EvalIdle ==
    /\ match_message = MatchMessage(<< >>)
    /\ action_rules = << >>
    /\ action_label_to_action_rules = << >>
    /\ previous_result = << >>
    /\ calls = 0

HandlerIdle ==
    /\ event = << >>
    /\ rule_config = << >>
    /\ idx = 1
    /\ sent = << >>
    /\ status = "returned"
    /\ outcome = << >>

WebhookIdle ==
    /\ performer = [variant |-> "WebhookPostActionPerformer",
                    name |-> "Notify", url |-> "https://example.test/hook"]
    /\ http_calls = << >>
    /\ responses = << >>
    /\ perform_results = << >>

InitApplies ==
    /\ action_rule \in AllRules
    /\ classifications \in SUBSET Labels
    /\ applies_result = "unset"
    /\ EvalIdle
    /\ HandlerIdle
    /\ WebhookIdle

NextApplies == ApplyRule

SpecApplies == InitApplies /\ [][NextApplies]_vars

InitEvaluate ==
    /\ match_message \in MatchMessages
    /\ action_rules \in SeqsUpTo(RuleUniverse, MaxRules)
    /\ action_label_to_action_rules = << >>
    /\ previous_result = << >>
    /\ calls = 0
    /\ ApplyIdle
    /\ HandlerIdle
    /\ WebhookIdle

NextEvaluate == CallGetActionsToTake

SpecEvaluate == InitEvaluate /\ [][NextEvaluate]_vars

\* the record bodies of a batch: the notifications of the messages with at
\* most one matching signal, and a body that does not deserialize
RecordBodies ==
    {json_dumps(MatchMessage_to_aws(MatchMessage(s))) :
        s \in {<< >>} \cup {<<b>> : b \in BankedSignals}}
    \cup {Malformed}

\* the rule lists the config repository holds for the handler
RuleConfigs ==
    {<< >>} \cup {<<r>> : r \in RuleUniverse}
    \cup {<<r1, r2>> : r1 \in RuleUniverse, r2 \in RuleUniverse}

Init ==
    /\ event \in SeqsUpTo(RecordBodies, MaxRecords)
    /\ rule_config \in RuleConfigs
    /\ idx = 1
    /\ sent = << >>
    /\ status = "running"
    /\ outcome = [k \in DOMAIN event |-> "pending"]
    /\ EvalIdle
    /\ ApplyIdle
    /\ WebhookIdle

Next == lambda_handler_record \/ lambda_handler_return

Spec == Init /\ [][Next]_vars

InitWebhook ==
    /\ performer \in [variant : WebhookVariants, name : {"Notify"}, url : Urls]
    /\ match_message \in MatchMessages
    /\ http_calls = << >>
    /\ responses = << >>
    /\ perform_results = << >>
    /\ action_rules = << >>
    /\ action_label_to_action_rules = << >>
    /\ previous_result = << >>
    /\ calls = 0
    /\ ApplyIdle
    /\ HandlerIdle

NextWebhook == perform_action

SpecWebhook == InitWebhook /\ [][NextWebhook]_vars

----------------------------------------------------------------------------
(* Properties *)

\* the rule's condition on a signal, label by label
RuleFires(rule, cls) ==
    /\ \A l \in rule.must_have_labels : l \in cls
    /\ \A l \in rule.must_not_have_labels : l \notin cls

\* the (signal, rule) pairs in signal-major then rule order
Pairs(banked_signals, rules) ==
    [p \in 1..(Len(banked_signals) * Len(rules)) |->
        [s |-> ((p - 1) \div Len(rules)) + 1, r |-> ((p - 1) % Len(rules)) + 1]]

\* the rules recorded for a label: one entry per pair whose rule fires on the
\* signal and carries the label
ExpectedRules(banked_signals, rules, label) ==
    LET Hit(p) == /\ rules[p.r].action_label = label
                  /\ RuleFires(rules[p.r], banked_signals[p.s].classifications)
        hits == SelectSeq(Pairs(banked_signals, rules), Hit)
    IN [k \in DOMAIN hits |-> rules[hits[k].r]]

TriggeredLabels(banked_signals, rules) ==
    {a \in ActionLabels : ExpectedRules(banked_signals, rules, a) # << >>}

\* C1: action_rule_applies_to_classifications(r, C) is true iff every label of
\* r.must_have_labels is in C and no label of r.must_not_have_labels is in C.
C1_AppliesIffLabelsMatch ==
    applies_result # "unset" =>
        (applies_result = "true" <=> RuleFires(action_rule, classifications))

C1_Witness ==
    /\ applies_result = "true"
    /\ action_rule.must_have_labels = {"C1"}
    /\ action_rule.must_not_have_labels = {"C3"}
    /\ classifications = {"C1", "C2"}

\* C2: the map of get_actions_to_take holds under each action label one entry
\* per (signal, rule) pair whose rule applies and has that label, in
\* signal-major then rule order, without deduplication; a label is a key
\* (once) only if such a pair exists.
C2_MapHoldsEveryFiringPair ==
    calls >= 1 =>
        LET d == action_label_to_action_rules
            signals == match_message.matching_banked_signals
        IN /\ \A i, j \in DOMAIN d : d[i].key = d[j].key => i = j
           /\ \A a \in ActionLabels :
                 IF ExpectedRules(signals, action_rules, a) = << >>
                 THEN a \notin DictKeys(d)
                 ELSE /\ a \in DictKeys(d)
                      /\ DictGet(d, a) = ExpectedRules(signals, action_rules, a)

C2_Witness ==
    /\ calls >= 1
    /\ Len(match_message.matching_banked_signals) = 2
    /\ match_message.matching_banked_signals[1]
          # match_message.matching_banked_signals[2]
    /\ Len(action_rules) = 1
    /\ action_label_to_action_rules =
          << [key |-> action_rules[1].action_label,
              value |-> <<action_rules[1], action_rules[1]>>] >>

\* C3: with actions A{priority 1, superseded_by []} and B{priority 2,
\* superseded_by [A]}, when both A and B are triggered for one MatchMessage
\* the map returned by get_actions_to_take contains only A.
C3_Actions ==
    << [action_label |-> "A", priority |-> 1, superseded_by |-> << >>],
       [action_label |-> "B", priority |-> 2, superseded_by |-> <<"A">>] >>

C3_Superseded(label, triggered) ==
    \E k \in DOMAIN C3_Actions :
        /\ C3_Actions[k].action_label = label
        /\ \E b \in Range(C3_Actions[k].superseded_by) :
              b # label /\ b \in triggered

C3_SupersededActionRemoved ==
    LET triggered ==
            TriggeredLabels(match_message.matching_banked_signals, action_rules)
    IN (calls >= 1 /\ triggered = {"A", "B"}) =>
          DictKeys(action_label_to_action_rules) =
             {a \in triggered : ~C3_Superseded(a, triggered)}

C9_OverlappingRuleNeverFires ==
    \A j \in DOMAIN action_rules :
        action_rules[j].must_have_labels
              \cap action_rules[j].must_not_have_labels # {} =>
           /\ \A cls \in SUBSET Labels :
                 ~action_rule_applies_to_classifications(action_rules[j], cls)
           /\ \A i \in DOMAIN action_label_to_action_rules :
                 action_rules[j]
                    \notin Range(action_label_to_action_rules[i].value)

C9_Witness ==
    /\ calls >= 1
    /\ Len(action_rules) = 2
    /\ action_rules[1].must_have_labels = {"C1"}
    /\ action_rules[1].must_not_have_labels = {"C1"}
    /\ Len(match_message.matching_banked_signals) = 1
    /\ match_message.matching_banked_signals[1].classifications = {"C1"}
    /\ Len(action_label_to_action_rules) = 1

----------------------------------------------------------------------------
(* Properties of lambda_handler *)

SentFor(k, queue) ==
    SelectSeq(sent, LAMBDA m : m.record = k /\ m.queue = queue)

PositionsFor(k, queue) ==
    {i \in DOMAIN sent : sent[i].record = k /\ sent[i].queue = queue}

\* C4: when the handler has ended, every record of the batch has been either
\* processed or reported as failed: a failure in one record leaves no record
\* after it unprocessed.
C4_FailureIsolatedPerRecord ==
    status # "running" =>
        \A k \in DOMAIN event : outcome[k] \in {"processed", "failed"}

\* C5: for every record processed without failure, exactly one message per
\* resolved action label is sent to the actions queue, carrying the
\* MatchMessage, the label and the full list of rules recorded for the label.
C5_OneActionMessagePerLabel ==
    \A k \in DOMAIN event :
        outcome[k] = "processed" =>
            LET mm == MatchMessage_from_aws_json(event[k])
                signals == mm.matching_banked_signals
                labels == TriggeredLabels(signals, rule_config)
                msgs == SentFor(k, "actions")
            IN /\ Len(msgs) = Cardinality(labels)
               /\ \A a \in labels :
                     \E i \in DOMAIN msgs :
                         msgs[i].body =
                            ActionMessage_to_aws_json(
                                mm, a, ExpectedRules(signals, rule_config, a))

C5_Witness ==
    /\ status = "returned"
    /\ Len(event) = 2
    /\ outcome[2] = "processed"
    /\ Len(SentFor(2, "actions")) = 2

\* C10: for every record processed without failure exactly one
\* ReactionMessage, with label SAW_THIS_TOO, is sent to the reactions queue,
\* after all ActionMessages of the record, also when the record triggers no
\* action label.
C10_OneReactionAfterActions ==
    \A k \in DOMAIN event :
        outcome[k] = "processed" =>
            LET mm == MatchMessage_from_aws_json(event[k])
                msgs == SentFor(k, "reactions")
            IN /\ Len(msgs) = 1
               /\ msgs[1].body.doc.reaction_label = "SAW_THIS_TOO"
               /\ msgs[1].body.doc.match_message = MatchMessage_to_aws(mm)
               /\ \A i \in PositionsFor(k, "actions") :
                     \A j \in PositionsFor(k, "reactions") : i < j

C10_Witness ==
    /\ Len(event) >= 2
    /\ outcome[1] = "processed"
    /\ outcome[2] = "processed"
    /\ Len(SentFor(1, "actions")) = 0
    /\ Len(SentFor(1, "reactions")) = 1
    /\ Len(SentFor(2, "actions")) = 2
    /\ Len(SentFor(2, "reactions")) = 1

----------------------------------------------------------------------------
(* Properties of the webhook performers *)

MethodOf(variant) ==
    CASE variant = "WebhookPostActionPerformer" -> "POST"
      [] variant = "WebhookGetActionPerformer" -> "GET"
      [] variant = "WebhookPutActionPerformer" -> "PUT"
      [] variant = "WebhookDeleteActionPerformer" -> "DELETE"

\* C6: whenever the outbound HTTP call raises a network error or returns a
\* non-success response, perform_action propagates the failure to its caller,
\* and the call is not retried.
C6_DispatchErrorPropagated ==
    /\ Len(http_calls) = Len(perform_results)
    /\ \A i \in DOMAIN responses :
          responses[i] # "success" => perform_results[i] = "raised"

====
